---------------------------- MODULE Spec2Model ----------------------------
(***************************************************************************)
(* A model of scrape.py: discovery of article URLs (RSS feeds, optional    *)
(* NewsAPI), the per-URL fetch / extract / match loop of main, and the     *)
(* write of portal.json.                                                   *)
(*                                                                         *)
(* Python str values are sequences of one-character strings.  An optional  *)
(* value (x or None) is <<x>> or <<>>.  A dict is a record                 *)
(* [keys |-> insertion-ordered sequence, val |-> function on the keys].    *)
(* Calls into feedparser, requests, readability and BeautifulSoup are      *)
(* inputs: each action draws the outcome of the call from a small set.     *)
(***************************************************************************)
EXTENDS Integers, Sequences, FiniteSets, TLC

VARIABLES
    pc,                \* position in main / in the function under check
    tz,                \* offset of the process's local time zone from UTC (hours)
    NEWSAPI_KEY,       \* os.getenv("NEWSAPI_KEY", "").strip()
    fi,                \* discover_from_rss: index of the feed being polled
    feed_title,        \* discover_from_rss: feed_title of the current feed
    left,              \* entries / articles of the current feed / chunk not yet iterated
    entry,             \* discover_from_rss: the entry of the current iteration
    pub_dt,            \* discover_from_rss: pub_dt of the current iteration
    discovered,        \* discover_from_rss / discover_from_newsapi: the local dict
    ci,                \* discover_from_newsapi: index of the keyword chunk being queried
    urls,              \* main: the merged discovery mapping
    frozen,            \* the mapping as it stood when discovery finished (history)
    seen,              \* main: seen
    idx,               \* main: position of the for loop in urls.items()
    url,               \* main: loop variable
    html,              \* main: html of the current iteration
    ret,               \* value returned by extract_from_html
    full_text,         \* main: full_text; extract_matched_sentences: its first argument
    title,             \* main: title
    combined,          \* main: combined
    matched_keywords,  \* main: matched_keywords; extract_matched_sentences: 2nd argument
    matched_sentences, \* main: matched_sentences
    results,           \* main: results
    failed,            \* URLs whose fetch yielded an empty body (history)
    portal             \* content of portal.json: <<>> until written, then <<results>>

vars == << pc, tz, NEWSAPI_KEY, fi, feed_title, left, entry, pub_dt, discovered, ci,
           urls, frozen, seen, idx, url, html, ret, full_text, title, combined,
           matched_keywords, matched_sentences, results, failed, portal >>

discoveryVars == << fi, feed_title, left, entry, pub_dt, discovered, ci >>

loopVars == << seen, idx, url, html, ret, full_text, title, combined,
               matched_keywords, matched_sentences, results, failed >>

-----------------------------------------------------------------------------
(* Bounds of the model *)

MaxEntries == 1     \* entries iterated per parsed feed
MaxArticles == 1    \* articles iterated per NewsAPI response
MaxLen == 5         \* length of the texts given to extract_matched_sentences
MaxUrls == 3        \* keys of the mapping the loop of main starts from
StartTime == 400    \* datetime.utcnow() at import, in hours

(* Program constants *)

CutoffDays == 7     \* timedelta(days=7)
HoursPerDay == 24
MinReadable == 50   \* len(text) > 50
ChunkSize == 8      \* chunks(ALL_KEYWORDS, 8)
SnippetLen == 400   \* full_text[:400]

-----------------------------------------------------------------------------
(* Python values *)

None == << >>
Some(x) == << x >>

Range(s) == { s[i] : i \in 1..Len(s) }

EmptyDict == [keys |-> << >>, val |-> << >>]

\* d[k] = v
DictSet(d, k, v) ==
    [keys |-> IF k \in Range(d.keys) THEN d.keys ELSE Append(d.keys, k),
     val  |-> [x \in (DOMAIN d.val) \cup {k} |-> IF x = k THEN v ELSE d.val[x]]]

RECURSIVE DictUpdateFrom(_, _, _)
DictUpdateFrom(d, e, n) ==
    IF n > Len(e.keys) THEN d
    ELSE DictUpdateFrom(DictSet(d, e.keys[n], e.val[e.keys[n]]), e, n + 1)

\* Mutant of DictUpdate: a key already there keeps its value (setdefault).
DictUpdate_KeepFirst(d, e) ==
    [keys |-> d.keys \o SelectSeq(e.keys, LAMBDA k : k \notin Range(d.keys)),
     val  |-> [x \in (DOMAIN d.val) \cup (DOMAIN e.val) |->
                 IF x \in DOMAIN d.val THEN d.val[x] ELSE e.val[x]]]

\* d.update(e)
DictUpdate(d, e) == DictUpdateFrom(d, e, 1)

\* A JSON / Python value: its type and, for a str, its characters.
PyStr(s) == [t |-> "str", v |-> s]
PyList(s) == [t |-> "list", v |-> s]
PyInt(s) == [t |-> "int", v |-> s]
PyDict(s) == [t |-> "dict", v |-> s]

\* bool(x) of a JSON value: empty str / list / dict and 0 are falsy
Truthy(x) ==
    IF x.t = "int" THEN x.v # << "0" >> ELSE x.v # << >>

-----------------------------------------------------------------------------
(* str operations *)

Whitespace == { " ", "\n" }
Terminal == { ".", "!", "?" }

\* one character of str.lower()
LowerChar(c) ==
    CASE c = "J" -> "j"
      [] c = "V" -> "v"
      [] c = "M" -> "m"
      [] c = "O" -> "o"
      [] c = "U" -> "u"
      [] OTHER -> c

\* s.lower()
Lower(s) == [i \in 1..Len(s) |-> LowerChar(s[i])]

\* k in t
Contains(t, k) ==
    \E i \in 0..(Len(t) - Len(k)) : SubSeq(t, i + 1, i + Len(k)) = k

\* s.strip()
Strip(s) ==
    LET keep == { i \in 1..Len(s) : s[i] \notin Whitespace }
    IN  IF keep = {} THEN << >>
        ELSE SubSeq(s, CHOOSE a \in keep : \A b \in keep : a <= b,
                       CHOOSE a \in keep : \A b \in keep : a >= b)

RECURSIVE Repeat(_, _)
Repeat(s, n) == IF n = 0 THEN << >> ELSE s \o Repeat(s, n - 1)

-----------------------------------------------------------------------------
(* The lexicon: two categories of KEYWORD_CATEGORIES, one keyword each *)

KEYWORD_CATEGORIES ==
    << [cat |-> "Deals & Partnerships", kwlist |-> << << "j", "v" >> >>],
       [cat |-> "Add-on Signals",       kwlist |-> << << "m", "o", "u" >> >>] >>

RECURSIVE Flatten(_, _, _)
Flatten(cats, c, k) ==
    IF c > Len(cats) THEN << >>
    ELSE IF k > Len(cats[c].kwlist) THEN Flatten(cats, c + 1, 1)
    ELSE << [kw |-> Lower(cats[c].kwlist[k]), cat |-> cats[c].cat] >>
         \o Flatten(cats, c, k + 1)

FlatLexicon == Flatten(KEYWORD_CATEGORIES, 1, 1)

ALL_KEYWORDS == [i \in 1..Len(FlatLexicon) |-> FlatLexicon[i].kw]

\* last write wins
KEYWORD_TO_CATEGORY(k) ==
    LET hits == { i \in 1..Len(FlatLexicon) : FlatLexicon[i].kw = k }
    IN  FlatLexicon[CHOOSE i \in hits : \A j \in hits : j <= i].cat

KEYWORDS_SET == Range(ALL_KEYWORDS)

RECURSIVE DedupSeq(_, _)
\* the elements of s, each at its first occurrence
DedupSeq(s, n) ==
    IF n > Len(s) THEN << >>
    ELSE (IF \E j \in 1..(n - 1) : s[j] = s[n] THEN << >> ELSE << s[n] >>)
         \o DedupSeq(s, n + 1)

\* The order in which the process iterates KEYWORDS_SET: a set's order is fixed
\* within a process and arbitrary; no property below reads the order.
KeywordIteration == DedupSeq(ALL_KEYWORDS, 1)

-----------------------------------------------------------------------------
(* The matcher *)

RECURSIVE KeywordsIn(_, _, _)
\* [k for k in ks if k in t]
KeywordsIn(ks, t, n) ==
    IF n > Len(ks) THEN << >>
    ELSE (IF Contains(t, ks[n]) THEN << ks[n] >> ELSE << >>) \o KeywordsIn(ks, t, n + 1)

match_keywords(text) ==
    LET t == Lower(text)
    IN  KeywordsIn(KeywordIteration, t, 1)

match_keyword_categories(mk) ==
    DedupSeq([i \in 1..Len(mk) |-> KEYWORD_TO_CATEGORY(mk[i])], 1)

RECURSIVE CompaniesIn(_, _, _)
\* [c for c in companies if c and c in t]
CompaniesIn(cs, t, n) ==
    IF n > Len(cs) THEN << >>
    ELSE (IF cs[n] # << >> /\ Contains(t, cs[n]) THEN << cs[n] >> ELSE << >>)
         \o CompaniesIn(cs, t, n + 1)

match_companies(text, companies) == CompaniesIn(companies, Lower(text), 1)

\* re.split(r'(?<=[.!?])\s+', s): the pieces between the whitespace runs that
\* start right after a terminal character.  cur is the piece being read.
RECURSIVE ReSplit(_, _, _)
ReSplit(s, n, cur) ==
    IF n > Len(s) THEN << cur >>
    ELSE IF s[n] \in Whitespace /\ n > 1 /\ s[n - 1] \in Terminal
         THEN LET rest == { j \in n..Len(s) : s[j] \notin Whitespace }
                  next == IF rest = {} THEN Len(s) + 1
                          ELSE CHOOSE j \in rest : \A m \in rest : j <= m
              IN  << cur >> \o ReSplit(s, next, << >>)
         ELSE ReSplit(s, n + 1, Append(cur, s[n]))

RECURSIVE MatchedOf_NoLower(_, _, _)
\* Mutant of MatchedOf: the sentence is tested as written, not lower-cased.
MatchedOf_NoLower(sents, mk, n) ==
    IF n > Len(sents) THEN << >>
    ELSE LET s == sents[n]
         IN  (IF \E i \in 1..Len(mk) : Contains(s, mk[i])
              THEN << Strip(s) >> ELSE << >>)
             \o MatchedOf_NoLower(sents, mk, n + 1)

RECURSIVE MatchedOf(_, _, _)
\* the loop "for s in sents" of extract_matched_sentences
MatchedOf(sents, mk, n) ==
    IF n > Len(sents) THEN << >>
    ELSE LET s == sents[n]
             sl == Lower(s)
         IN  (IF \E i \in 1..Len(mk) : Contains(sl, mk[i])
              THEN << Strip(s) >> ELSE << >>)
             \o MatchedOf(sents, mk, n + 1)

extract_matched_sentences(text, mks) ==
    IF text = << >> \/ mks = << >> THEN << >>
    ELSE LET sents == ReSplit(text, 1, << >>)
             mk == [i \in 1..Len(mks) |-> Lower(mks[i])]
         IN  MatchedOf(sents, mk, 1)

-----------------------------------------------------------------------------
(* A fetched document, as the libraries see it.  Each field is the outcome   *)
(* of one library call on the document:                                      *)
(*   ld          soup.select_one("script[type='application/ld+json']") and   *)
(*               json.loads(ld.string): "absent" (no such script), "raises"  *)
(*               (json.loads raises), "nondict" (a JSON value that is no     *)
(*               object), "dict" with body = j.get("articleBody")            *)
(*   readable    Document(html).summary() flattened by get_text              *)
(*   raw         soup.get_text(separator=" ", strip=True)                    *)
(*   short_title Document(html).short_title()                                *)
(*   title_tag   soup.title and soup.title.string                            *)
(*****************************************************************************)

BodyText == << "J", "v", " ", "a", ".", " ", "b" >>
Text50 == Repeat(<< "a", "b", ".", " " >>, 12) \o << "a", "b" >>
Text51 == Repeat(<< "a", "b", ".", " " >>, 12) \o << "a", "b", "c" >>
RawText == << "m", "o", "u" >>

\* values a publisher's JSON-LD gives for "articleBody" (None: JSON null)
Bodies ==
    { Some(PyStr(BodyText)), Some(PyStr(<< >>)), Some(PyList(<< "a" >>)),
      Some(PyInt(<< "7" >>)), None }

LdSet ==
    { [kind |-> k, body |-> None] : k \in { "absent", "raises", "nondict" } }
    \cup { [kind |-> "dict", body |-> b] : b \in Bodies }

CallSet(texts) == { [raises |-> r, text |-> t] : r \in BOOLEAN, t \in texts }

ReadableSet == { c \in CallSet({ << >>, Text50, Text51 }) : c.raises => c.text = << >> }
RawSet == { c \in CallSet({ << >>, RawText }) : c.raises <=> c.text = << >> }
ShortTitleSet ==
    { c \in CallSet({ << >>, << "J", "V" >> }) : c.raises => c.text = << >> }
TitleTagSet ==
    { [present |-> FALSE, string |-> None], [present |-> TRUE, string |-> None],
      [present |-> TRUE, string |-> Some(<< "M", "o", "u" >>)] }

Html ==
    [ld : LdSet, readable : ReadableSet, raw : RawSet,
     short_title : ShortTitleSet, title_tag : TitleTagSet]

extract_from_html(h) ==
    IF h.ld.kind = "dict" /\ h.ld.body # None /\ Truthy(h.ld.body[1])
    THEN h.ld.body[1]
    ELSE IF ~h.readable.raises /\ Len(h.readable.text) > MinReadable
    THEN PyStr(h.readable.text)
    ELSE IF ~h.raw.raises THEN PyStr(h.raw.text)
    ELSE PyStr(<< >>)

\* main, "# get title"
TitleOf(h) ==
    IF ~h.short_title.raises THEN h.short_title.text
    ELSE IF h.title_tag.present /\ h.title_tag.string # None
    THEN h.title_tag.string[1]
    ELSE << >>

-----------------------------------------------------------------------------
(* Configuration and inputs of a run *)

\* the first two feeds of RSS_FEEDS, in the dict's order
RSS_FEEDS ==
    << [name |-> "LiveMint_Companies", url |-> "https://www.livemint.com/rss/companies"],
       [name |-> "LiveMint_Markets",   url |-> "https://www.livemint.com/rss/markets"] >>

\* the company list main loads before discovery (lower-cased, stripped)
COMPANIES == << << "a", "b" >> >>

Urls == { "u1", "u2" }

\* CUTOFF_DT = datetime.utcnow() - timedelta(days=7), taken at import
CUTOFF_DT == StartTime - CutoffDays * HoursPerDay

\* what datetime.utcnow() can return after import
UtcNow == { StartTime, StartTime + 1 }

\* datetime.isoformat(): the text of a naive UTC datetime
IsoFormat(t) == << "iso", t >>

\* datetime.utcfromtimestamp(time.mktime(st)): mktime reads the struct_time st
\* (feedparser gives it in UTC) as local time, so the result is st moved back
\* by the local zone's offset.
UtcFromMktime(st, zone) == st - zone

TzOffsets == { 0, 1 }

\* f.feed of a parsed feed: whether the dict is non-empty, and its "title"
FeedLevels ==
    { [nonempty |-> FALSE, title |-> None],
      [nonempty |-> TRUE,  title |-> Some("Mint")],
      [nonempty |-> TRUE,  title |-> None] }

\* an entry of a parsed feed: its times as feedparser gives them (UTC), whether
\* time.mktime raises on them, its link and its id (the link again, or none)
Entries ==
    { e \in [published_parsed : { None, Some(CUTOFF_DT - 1), Some(CUTOFF_DT),
                                  Some(CUTOFF_DT + 1) },
             updated_parsed : { None, Some(CUTOFF_DT) },
             mktime_raises : BOOLEAN,
             link : { None } \cup { Some(u) : u \in Urls },
             id : { None } \cup { Some(u) : u \in Urls }] :
        /\ e.link # None => e.id = e.link
        /\ e.id # None /\ e.link = None => e.id = Some("u1") }

\* an article of a NewsAPI response; source: "null" (JSON null), "unnamed"
\* (an object without a name) or "named"
Articles ==
    [url : { None } \cup { Some(u) : u \in Urls },
     source : { "null", "unnamed", "named" },
     publishedAt : { None, Some(<< "apiZ", CUTOFF_DT + 2 >>) }]

\* the response of requests.get(url): raised, or a status code and a body
\* (None: the empty body)
Pages ==
    { h \in Html :
        /\ h.ld \in { [kind |-> "absent", body |-> None],
                      [kind |-> "dict", body |-> Some(PyStr(BodyText))],
                      [kind |-> "dict", body |-> Some(PyList(<< "a" >>))] }
        /\ ~h.readable.raises /\ h.readable.text # << >>
        /\ h.ld.kind = "dict" => h.readable.text = Text51
        /\ ~h.raw.raises
        /\ \/ ~h.short_title.raises /\ h.short_title.text = << >>
                 /\ ~h.title_tag.present
           \/ h.short_title.raises /\ h.title_tag.string # None }

Responses ==
    { [raises |-> TRUE, status_code |-> 0, text |-> None],
      [raises |-> FALSE, status_code |-> 404, text |-> None],
      [raises |-> FALSE, status_code |-> 200, text |-> None] }
    \cup { [raises |-> FALSE, status_code |-> 200, text |-> Some(h)] : h \in Pages }

-----------------------------------------------------------------------------
(* Values of the variables a specification does not use *)

NoEntry ==
    [published_parsed |-> None, updated_parsed |-> None, mktime_raises |-> FALSE,
     link |-> None, id |-> None]

IdleDiscovery ==
    /\ tz = 0
    /\ NEWSAPI_KEY = << >>
    /\ fi = 0
    /\ feed_title = None
    /\ left = 0
    /\ entry = NoEntry
    /\ pub_dt = None
    /\ discovered = EmptyDict
    /\ ci = 0
    /\ urls = EmptyDict
    /\ frozen = EmptyDict

IdleLoop ==
    /\ seen = {}
    /\ idx = 0
    /\ url = None
    /\ combined = << >>
    /\ results = << >>
    /\ failed = {}
    /\ portal = None

-----------------------------------------------------------------------------
(* discover_from_rss *)

\* feed_title = f.feed.get("title") if hasattr(f, "feed") and f.feed else feed_name
FeedTitleOf(feed, feed_name) ==
    IF feed.nonempty THEN feed.title ELSE Some(feed_name)

\* pub_dt of an entry: published_parsed, else updated_parsed, converted inside
\* the try; None (then utcnow()) when neither is there or mktime raises
PubDtOf(e, zone, now) ==
    LET st == IF e.published_parsed # None THEN e.published_parsed
              ELSE e.updated_parsed
    IN  IF st = None \/ e.mktime_raises THEN now
        ELSE UtcFromMktime(st[1], zone)

\* Mutant of TooOld: an entry dated exactly at the cutoff is dropped too.
TooOld_AtCutoff(dt) == dt <= CUTOFF_DT

\* if pub_dt < CUTOFF_DT: continue
TooOld(dt) == dt < CUTOFF_DT

\* link = entry.get("link") or entry.get("id")
LinkOf(e) == IF e.link # None THEN e.link ELSE e.id

RssMeta(ft, feed, dt) ==
    [source_type |-> "rss",
     source_name |-> ft,
     feed_name |-> feed.name,
     feed_url |-> Some(feed.url),
     published_at |-> IsoFormat(dt)]

\* main reaches discover_from_rss once the company list has loaded
Init ==
    /\ pc = "rss_feed"
    /\ tz \in TzOffsets
    /\ NEWSAPI_KEY \in { << >>, << "k" >> }
    /\ fi = 0
    /\ feed_title = None
    /\ left = 0
    /\ entry = NoEntry
    /\ pub_dt = None
    /\ discovered = EmptyDict
    /\ ci = 0
    /\ urls = EmptyDict
    /\ frozen = EmptyDict
    /\ html = None
    /\ ret = PyStr(<< >>)
    /\ full_text = PyStr(<< >>)
    /\ title = << >>
    /\ matched_keywords = << >>
    /\ matched_sentences = << >>
    /\ IdleLoop

\* The next feed of "for feed_name, feed_url in rss_map.items()", up to its
\* entries loop: feedparser.parse raises (continue) or gives f with n entries.
\* entry and pub_dt are not read before the entries loop assigns them again.
RssParse ==
    /\ pc = "rss_feed"
    /\ fi < Len(RSS_FEEDS)
    /\ fi' = fi + 1
    /\ entry' = NoEntry
    /\ pub_dt' = None
    /\ \E raises \in BOOLEAN, feed \in FeedLevels, n \in 0..MaxEntries :
         IF raises
         THEN /\ feed = CHOOSE x \in FeedLevels : TRUE
              /\ n = 0
              /\ UNCHANGED << pc, feed_title, left >>
         ELSE /\ feed_title' = FeedTitleOf(feed, RSS_FEEDS[fi'].name)
              /\ left' = n
              /\ pc' = IF n = 0 THEN "rss_feed" ELSE "rss_entry"
    /\ UNCHANGED << tz, NEWSAPI_KEY, discovered, ci, urls, frozen, loopVars, portal >>

\* one iteration of "for entry in f.entries"
RssEntry ==
    /\ pc = "rss_entry"
    /\ left > 0
    /\ \E e \in Entries, now \in UtcNow :
         LET dt == PubDtOf(e, tz, now)
             link == LinkOf(e)
         IN  /\ entry' = e
             /\ pub_dt' = Some(dt)
             /\ discovered' =
                  IF TooOld(dt) \/ link = None THEN discovered
                  ELSE DictSet(discovered, link[1],
                               RssMeta(feed_title, RSS_FEEDS[fi], dt))
    /\ left' = left - 1
    /\ pc' = IF left' = 0 THEN "rss_feed" ELSE "rss_entry"
    /\ UNCHANGED << tz, NEWSAPI_KEY, fi, feed_title, ci, urls, frozen, loopVars,
                    portal >>

\* return discovered; urls = discover_from_rss(RSS_FEEDS); if NEWSAPI_KEY: the
\* call of discover_from_newsapi, whose discovered starts empty
RssReturn ==
    /\ pc = "rss_feed"
    /\ fi = Len(RSS_FEEDS)
    /\ urls' = discovered
    /\ feed_title' = None
    /\ entry' = NoEntry
    /\ pub_dt' = None
    /\ left' = 0
    /\ ci' = 0
    /\ IF NEWSAPI_KEY # << >>
       THEN /\ pc' = "newsapi_chunk"
            /\ discovered' = EmptyDict
            /\ frozen' = frozen
       ELSE /\ pc' = "loop"
            /\ discovered' = discovered
            /\ frozen' = urls'
    /\ UNCHANGED << tz, NEWSAPI_KEY, fi, loopVars, portal >>

-----------------------------------------------------------------------------
(* discover_from_newsapi *)

\* len(list(chunks(ALL_KEYWORDS, 8)))
NumChunks == (Len(ALL_KEYWORDS) + ChunkSize - 1) \div ChunkSize

NewsapiMeta(art, now) ==
    [source_type |-> "newsapi",
     source_name |-> IF art.source = "named" THEN Some("Reuters") ELSE None,
     feed_name |-> "NewsAPI",
     feed_url |-> None,
     published_at |-> IF art.publishedAt # None THEN art.publishedAt[1]
                      ELSE IsoFormat(now)]

\* the next request of "for chunk in chunks(ALL_KEYWORDS, 8)": requests.get or
\* r.json() raises, or the status is not 200 (both: continue), or the
\* response lists n articles
NewsapiRequest ==
    /\ pc = "newsapi_chunk"
    /\ ci < NumChunks
    /\ ci' = ci + 1
    /\ \E outcome \in { "raises", "non200", "ok" }, n \in 0..MaxArticles :
         IF outcome # "ok"
         THEN /\ n = 0
              /\ UNCHANGED << pc, left >>
         ELSE /\ left' = n
              /\ pc' = IF n = 0 THEN "newsapi_chunk" ELSE "newsapi_article"
    /\ UNCHANGED << tz, NEWSAPI_KEY, fi, feed_title, entry, pub_dt, discovered,
                    urls, frozen, loopVars, portal >>

\* one iteration of "for art in data.get("articles", [])"; a source that is
\* JSON null makes .get raise, which the chunk's except turns into continue
NewsapiArticle ==
    /\ pc = "newsapi_article"
    /\ left > 0
    /\ \E art \in Articles, now \in UtcNow :
         IF art.url = None
         THEN /\ left' = left - 1
              /\ discovered' = discovered
         ELSE IF art.source = "null"
         THEN /\ left' = 0
              /\ discovered' = discovered
         ELSE /\ left' = left - 1
              /\ discovered' = DictSet(discovered, art.url[1], NewsapiMeta(art, now))
    /\ pc' = IF left' = 0 THEN "newsapi_chunk" ELSE "newsapi_article"
    /\ UNCHANGED << tz, NEWSAPI_KEY, fi, feed_title, entry, pub_dt, ci, urls, frozen,
                    loopVars, portal >>

\* newsapi_urls = discover_from_newsapi(NEWSAPI_KEY); urls.update(newsapi_urls)
\* (discovered stays: it is main's newsapi_urls)
NewsapiReturn ==
    /\ pc = "newsapi_chunk"
    /\ ci = NumChunks
    /\ urls' = DictUpdate(urls, discovered)
    /\ frozen' = urls'
    /\ pc' = "loop"
    /\ UNCHANGED << tz, NEWSAPI_KEY, fi, feed_title, left, entry, pub_dt, discovered,
                    ci, loopVars, portal >>

-----------------------------------------------------------------------------
(* main: fetch + extract + match, write output *)

\* html = r.text if r.status_code == 200 else "", "" when requests.get raises
HtmlOf(resp) ==
    IF ~resp.raises /\ resp.status_code = 200 THEN resp.text ELSE None

\* combined = (title + " " + full_text).strip().lower()
CombinedOf(t, body) == Lower(Strip(t \o << " " >> \o body))

\* snippet: (full_text[:400] + "...") if full_text else ""
SnippetOf(body) ==
    IF body = << >> THEN << >>
    ELSE SubSeq(body, 1, IF Len(body) < SnippetLen THEN Len(body) ELSE SnippetLen)
         \o << ".", ".", "." >>

\* Mutant of MetaOf: the provenance of the mapping's first URL.
MetaOf_First(mapping, u) == mapping.val[mapping.keys[1]]

\* meta of "for url, meta in urls.items()"
MetaOf(mapping, u) == mapping.val[u]

MakeRec(u, meta, t, body, comb, mk, now) ==
    [title |-> t,
     url |-> u,
     source_type |-> meta.source_type,
     source_name |-> meta.source_name,
     feed_name |-> meta.feed_name,
     feed_url |-> meta.feed_url,
     published_at |-> meta.published_at,
     scraped_at |-> IsoFormat(now),
     matched_companies |-> match_companies(comb, COMPANIES),
     matched_keywords |-> mk,
     matched_keyword_categories |-> match_keyword_categories(mk),
     matched_sentences |-> extract_matched_sentences(body, mk),
     full_text |-> body,
     snippet |-> SnippetOf(body)]

\* Mutant of Discard: the zero-match gate is gone.
Discard_Never(mk) == FALSE

\* if not matched_keywords: continue
Discard(mk) == mk = << >>

\* One iteration of "for url, meta in urls.items()".  title + " " + full_text
\* raises TypeError when full_text is not a str; nothing catches it and main
\* ends without writing.  A name the iteration has not assigned yet holds its
\* idle value: the code reads none of them before assigning it.
ProcessUrl ==
    /\ pc = "loop"
    /\ idx < Len(urls.keys)
    /\ idx' = idx + 1
    /\ url' = Some(urls.keys[idx'])
    /\ IF url'[1] \in seen
       THEN /\ html' = None
            /\ ret' = PyStr(<< >>)
            /\ full_text' = PyStr(<< >>)
            /\ title' = << >>
            /\ combined' = << >>
            /\ matched_keywords' = << >>
            /\ matched_sentences' = << >>
            /\ UNCHANGED << pc, seen, results, failed >>
       ELSE
       /\ seen' = seen \cup { url'[1] }
       /\ \E resp \in Responses, now \in { StartTime + 1 } :
            /\ html' = HtmlOf(resp)
            /\ IF html' = None
               THEN /\ failed' = failed \cup { url'[1] }
                    /\ ret' = PyStr(<< >>)
                    /\ full_text' = PyStr(<< >>)
                    /\ title' = << >>
                    /\ combined' = << >>
                    /\ matched_keywords' = << >>
                    /\ matched_sentences' = << >>
                    /\ UNCHANGED << pc, results >>
               ELSE
               /\ failed' = failed
               /\ ret' = extract_from_html(html'[1])
               /\ full_text' = IF Truthy(ret') THEN ret' ELSE PyStr(<< >>)
               /\ title' = TitleOf(html'[1])
               /\ IF full_text'.t # "str"
                  THEN /\ pc' = "crashed"
                       /\ combined' = << >>
                       /\ matched_keywords' = << >>
                       /\ matched_sentences' = << >>
                       /\ results' = results
                  ELSE
                  /\ pc' = pc
                  /\ combined' = CombinedOf(title', full_text'.v)
                  /\ matched_keywords' = match_keywords(combined')
                  /\ IF Discard(matched_keywords')
                     THEN /\ matched_sentences' = << >>
                          /\ results' = results
                     ELSE
                     LET rec == MakeRec(url'[1], MetaOf(urls, url'[1]),
                                        title', full_text'.v, combined',
                                        matched_keywords', now)
                     IN  /\ matched_sentences' = rec.matched_sentences
                         /\ results' = Append(results, rec)
    /\ UNCHANGED << tz, NEWSAPI_KEY, discoveryVars, urls, frozen, portal >>

\* with open(OUT_JSON, "w") as fw: json.dump(results, fw, ...)
Write ==
    /\ pc = "loop"
    /\ idx >= Len(urls.keys)
    /\ portal' = Some(results)
    /\ pc' = "done"
    /\ UNCHANGED << tz, NEWSAPI_KEY, discoveryVars, urls, frozen, loopVars >>

Next ==
    \/ RssParse
    \/ RssEntry
    \/ RssReturn
    \/ NewsapiRequest
    \/ NewsapiArticle
    \/ NewsapiReturn
    \/ ProcessUrl
    \/ Write

Spec == Init /\ [][Next]_vars

-----------------------------------------------------------------------------
(* Discovery alone: main up to "Total discovered URLs" *)

NextDiscovery ==
    \/ RssParse
    \/ RssEntry
    \/ RssReturn
    \/ NewsapiRequest
    \/ NewsapiArticle
    \/ NewsapiReturn

SpecDiscovery == Init /\ [][NextDiscovery]_vars

-----------------------------------------------------------------------------
(* The loop of main alone, started from a mapping discovery can return *)

UrlNames == << "u1", "u2", "u3", "u4" >>

SampleMetas ==
    { RssMeta(Some("Mint"), RSS_FEEDS[1], CUTOFF_DT),
      NewsapiMeta([url |-> None, source |-> "unnamed", publishedAt |-> None],
                  StartTime + 1) }

DiscoveredMappings ==
    UNION { { [keys |-> SubSeq(UrlNames, 1, k), val |-> m] :
                m \in [Range(SubSeq(UrlNames, 1, k)) -> SampleMetas] } :
            k \in 0..MaxUrls }

InitLoop ==
    /\ pc = "loop"
    /\ tz = 0
    /\ NEWSAPI_KEY = << >>
    /\ fi = Len(RSS_FEEDS) + 1
    /\ feed_title = None
    /\ left = 0
    /\ entry = NoEntry
    /\ pub_dt = None
    /\ discovered = EmptyDict
    /\ ci = 0
    /\ urls \in DiscoveredMappings
    /\ frozen = urls
    /\ html = None
    /\ ret = PyStr(<< >>)
    /\ full_text = PyStr(<< >>)
    /\ title = << >>
    /\ matched_keywords = << >>
    /\ matched_sentences = << >>
    /\ IdleLoop

NextLoop ==
    \/ ProcessUrl
    \/ Write

SpecLoop == InitLoop /\ [][NextLoop]_vars

-----------------------------------------------------------------------------
(* extract_from_html and the title step of main, applied to every document *)

InitExtract ==
    /\ pc = "extract_call"
    /\ html \in { Some(h) : h \in Html }
    /\ ret = PyStr(<< >>)
    /\ full_text = PyStr(<< >>)
    /\ title = << >>
    /\ matched_keywords = << >>
    /\ matched_sentences = << >>
    /\ IdleDiscovery
    /\ IdleLoop

\* full_text = extract_from_html(html) or ""
ExtractBody ==
    /\ pc = "extract_call"
    /\ ret' = extract_from_html(html[1])
    /\ full_text' = IF Truthy(ret') THEN ret' ELSE PyStr(<< >>)
    /\ pc' = "title_call"
    /\ UNCHANGED << tz, NEWSAPI_KEY, discoveryVars, urls, frozen, seen, idx, url, html,
                    title, combined, matched_keywords, matched_sentences, results,
                    failed, portal >>

ExtractTitle ==
    /\ pc = "title_call"
    /\ title' = TitleOf(html[1])
    /\ pc' = "extract_ret"
    /\ UNCHANGED << tz, NEWSAPI_KEY, discoveryVars, urls, frozen, seen, idx, url, html,
                    ret, full_text, combined, matched_keywords, matched_sentences,
                    results, failed, portal >>

NextExtract == ExtractBody \/ ExtractTitle

SpecExtract == InitExtract /\ [][NextExtract]_vars

-----------------------------------------------------------------------------
(* extract_matched_sentences, applied to every text of at most MaxLen        *)
(* characters and every keyword list match_keywords can return               *)

SentAlphabet == { "j", "V", ".", "?", " " }

Texts == UNION { [1..n -> SentAlphabet] : n \in 0..MaxLen }

KeywordArgs ==
    { << >>, << ALL_KEYWORDS[1] >>, << ALL_KEYWORDS[2] >>, ALL_KEYWORDS }

InitSentences ==
    /\ pc = "sentences_call"
    /\ full_text \in { PyStr(t) : t \in Texts }
    /\ matched_keywords \in KeywordArgs
    /\ matched_sentences = << >>
    /\ html = None
    /\ ret = PyStr(<< >>)
    /\ title = << >>
    /\ IdleDiscovery
    /\ IdleLoop

SentencesCall ==
    /\ pc = "sentences_call"
    /\ matched_sentences' = extract_matched_sentences(full_text.v, matched_keywords)
    /\ pc' = "sentences_ret"
    /\ UNCHANGED << tz, NEWSAPI_KEY, discoveryVars, urls, frozen, seen, idx, url, html,
                    ret, full_text, title, combined, matched_keywords, results,
                    failed, portal >>

NextSentences == SentencesCall

SpecSentences == InitSentences /\ [][NextSentences]_vars

-----------------------------------------------------------------------------
(* C1 *)

HasKeyword(text) == \E k \in { << "j", "v" >>, << "m", "o", "u" >> } : Contains(text, k)

\* the lower-cased combined title+body text of a record
CombinedText(r) == Lower(Strip(r.title \o << " " >> \o r.full_text))

\* C1: every record in the output has a non-empty matched_keywords list and
\* a combined title+body text that contains a lexicon keyword; a document
\* whose combined text contains no lexicon keyword yields no record.
C1_RecordOnlyIfKeyword ==
    /\ \A i \in 1..Len(results) :
          /\ results[i].matched_keywords # << >>
          /\ HasKeyword(CombinedText(results[i]))
    /\ (html # None /\ full_text.t = "str"
          /\ ~HasKeyword(Lower(Strip(title \o << " " >> \o full_text.v))))
       => \A i \in 1..Len(results) : results[i].url # url[1]

\* C1 witness: one document has yielded a record and the next, whose text has
\* no keyword, has been dropped.
C1_Witness ==
    /\ pc = "loop"
    /\ idx = 2
    /\ Len(results) = 1
    /\ results[1].url = urls.keys[1]
    /\ html # None
    /\ full_text = PyStr(Text51)
    /\ matched_keywords = << >>

-----------------------------------------------------------------------------
(* C2 *)

\* the mapping holds each URL once
OneEntryPerUrl(d) ==
    /\ \A i, j \in 1..Len(d.keys) : d.keys[i] = d.keys[j] => i = j
    /\ DOMAIN d.val = Range(d.keys)

\* every provenance field of m was written by one and the same source
FromOneSource(m) ==
    \/ /\ m.source_type = "rss"
       /\ \E f \in 1..Len(RSS_FEEDS) :
             /\ m.feed_name = RSS_FEEDS[f].name
             /\ m.feed_url = Some(RSS_FEEDS[f].url)
             /\ m.source_name \in { None, Some("Mint"), Some(RSS_FEEDS[f].name) }
       /\ m.published_at[1] = "iso"
    \/ /\ m.source_type = "newsapi"
       /\ m.feed_name = "NewsAPI"
       /\ m.feed_url = None
       /\ m.source_name \in { None, Some("Reuters") }

\* C2: the discovery mapping holds one entry per URL; the entry of a URL is
\* the one its latest discoverer wrote, whole: the feed entry just accepted
\* owns its URL's entry, and after the merge every URL the search API
\* returned carries the search API's entry.
C2_DedupLaterWins ==
    /\ OneEntryPerUrl(discovered)
    /\ OneEntryPerUrl(urls)
    /\ \A u \in DOMAIN discovered.val : FromOneSource(discovered.val[u])
    /\ \A u \in DOMAIN urls.val : FromOneSource(urls.val[u])
    /\ (pc \in { "rss_feed", "rss_entry" } /\ pub_dt # None
          /\ pub_dt[1] >= CUTOFF_DT /\ LinkOf(entry) # None)
       => discovered.val[LinkOf(entry)[1]] =
              [source_type |-> "rss", source_name |-> feed_title,
               feed_name |-> RSS_FEEDS[fi].name, feed_url |-> Some(RSS_FEEDS[fi].url),
               published_at |-> << "iso", pub_dt[1] >>]
    /\ (pc = "loop" /\ NEWSAPI_KEY # << >>)
       => /\ \A u \in DOMAIN discovered.val : urls.val[u] = discovered.val[u]
          /\ \A u \in (DOMAIN urls.val) \ (DOMAIN discovered.val) :
                urls.val[u].source_type = "rss"

\* C2 witness: u1 was discovered by a feed before u2 (it keeps the first
\* place) and then by the search API, whose entry it now carries.
C2_Witness ==
    /\ pc = "loop"
    /\ urls.keys = << "u1", "u2" >>
    /\ discovered.keys = << "u1" >>
    /\ urls.val["u1"].source_type = "newsapi"
    /\ urls.val["u1"].feed_url = None
    /\ urls.val["u2"].source_type = "rss"

-----------------------------------------------------------------------------
(* C3 *)

\* C3: a URL whose fetch failed has no record, and the failure does not halt
\* the run: when the run has ended, every discovered URL has been fetched.
C3_FetchFailureDoesNotHalt ==
    /\ \A i \in 1..Len(results) : results[i].url \notin failed
    /\ (failed # {} /\ pc \in { "done", "crashed" }) => seen = Range(urls.keys)

-----------------------------------------------------------------------------
(* C4 *)

\* C4: the run does not stop before the step that writes the output: it has
\* written results to the output artifact, or it can take a step.
C4_OutputAlwaysWritten ==
    (pc = "done" /\ portal = Some(results)) \/ ENABLED Next

-----------------------------------------------------------------------------
(* C8 *)

-----------------------------------------------------------------------------
(* C9 *)

\* C9: the source name of a feed-poll entry is the feed's display title or,
\* when that is unavailable, the feed's configured name; it is never missing.
C9_SourceNameNeverMissing ==
    \A d \in { discovered, urls } : \A u \in DOMAIN d.val :
        d.val[u].source_type = "rss"
            => /\ d.val[u].source_name # None
               /\ d.val[u].source_name \in { Some("Mint"), Some(d.val[u].feed_name) }

-----------------------------------------------------------------------------
(* C10 *)

\* C10: the output holds at most one record per URL; each record's URL is a
\* key of the mapping as discovery left it and its provenance fields are that
\* key's entry; the loop leaves the mapping as discovery left it.
C10_ProvenanceFromDiscovery ==
    /\ urls = frozen
    /\ \A i, j \in 1..Len(results) : results[i].url = results[j].url => i = j
    /\ \A i \in 1..Len(results) :
          LET r == results[i]
          IN  /\ r.url \in DOMAIN frozen.val
              /\ r.source_type = frozen.val[r.url].source_type
              /\ r.source_name = frozen.val[r.url].source_name
              /\ r.feed_name = frozen.val[r.url].feed_name
              /\ r.feed_url = frozen.val[r.url].feed_url
              /\ r.published_at = frozen.val[r.url].published_at

\* C10 witness: the run has written two records, of two URLs that discovery
\* attributed to different sources.
C10_Witness ==
    /\ pc = "done"
    /\ Len(results) = 2
    /\ results[1].source_type = "rss"
    /\ results[2].source_type = "newsapi"
    /\ results[1].url # results[2].url

-----------------------------------------------------------------------------
(* C5 *)

\* The body the three-stage chain is claimed to return: the declared, usable
\* article body; else the readability text if longer than 50; else the raw text.
ClaimedBody(h) ==
    IF h.ld.kind = "dict" /\ h.ld.body # None /\ h.ld.body[1].v # << >>
    THEN h.ld.body[1]
    ELSE IF ~h.readable.raises /\ Len(h.readable.text) > 50
    THEN PyStr(h.readable.text)
    ELSE IF ~h.raw.raises THEN PyStr(h.raw.text)
    ELSE PyStr(<< >>)

\* C5: extract_from_html returns the result of the three-stage fallback chain
\* (declared article body verbatim, else readability text longer than 50
\* characters, else the raw text, a raising stage counting as nothing), and what
\* it returns is always a string.
C5_ChainReturnsString ==
    pc \in { "title_call", "extract_ret" } =>
        /\ ret = ClaimedBody(html[1])
        /\ ret.t = "str"

-----------------------------------------------------------------------------
(* C6 *)

\* The title of the claimed three-step preference.
ClaimedTitle(h) ==
    IF ~h.short_title.raises /\ h.short_title.text # << >>
    THEN h.short_title.text
    ELSE IF h.title_tag.present /\ h.title_tag.string # None
    THEN h.title_tag.string[1]
    ELSE << >>

\* C6: the title is the readability short title when the readability step
\* yields one; otherwise (it raised or yielded no title) the text of the
\* <title> element when there is one; otherwise the empty string.
C6_TitlePreference ==
    pc = "extract_ret" => title = ClaimedTitle(html[1])

-----------------------------------------------------------------------------
(* C7 *)

\* The whitespace runs of s that start right after '.', '!' or '?', each as
\* <<first, last>>.
Separators(s) ==
    { r \in (1..Len(s)) \X (1..Len(s)) :
        /\ r[1] <= r[2]
        /\ r[1] > 1
        /\ s[r[1] - 1] \in { ".", "!", "?" }
        /\ \A i \in r[1]..r[2] : s[i] \in { " ", "\n" }
        /\ r[2] = Len(s) \/ s[r[2] + 1] \notin { " ", "\n" } }

\* The sentences of s, each as <<first, last>>: what lies between separators.
SentenceSpans(s) ==
    LET seps == Separators(s)
        starts == { 1 } \cup { r[2] + 1 : r \in seps }
        EndOf(p) == LET after == { r[1] : r \in { q \in seps : q[1] >= p } }
                    IN  IF after = {} THEN Len(s)
                        ELSE (CHOOSE a \in after : \A b \in after : a <= b) - 1
    IN  { << p, EndOf(p) >> : p \in starts }

\* The sentences whose lower-cased form contains a keyword of ks.
Retained(s, ks) ==
    { sp \in SentenceSpans(s) :
        \E i \in 1..Len(ks) : Contains(Lower(SubSeq(s, sp[1], sp[2])), ks[i]) }

\* A sentence without the whitespace around it (only the first sentence can
\* start, and only the last can end, with whitespace).
Trimmed(s, sp) ==
    LET inner == { i \in sp[1]..sp[2] : s[i] \notin { " ", "\n" } }
    IN  IF inner = {} THEN << >>
        ELSE SubSeq(s, CHOOSE a \in inner : \A b \in inner : a <= b,
                       CHOOSE a \in inner : \A b \in inner : a >= b)

=============================================================================
